---- MODULE Spec2Model ----
(***************************************************************************)
(* docs/conf.py: the Sphinx configuration module of bash-deploy-libs.      *)
(*                                                                         *)
(* The module is a straight-line Python program of eight assignment        *)
(* statements.  The model is an interpreter for that program: Program      *)
(* holds the statements by source line, Eval evaluates a right-hand side   *)
(* in the module namespace, and ExecInOrder executes the statement under   *)
(* the program counter.  The documentation tool that executes the module   *)
(* and then reads the names out of its namespace is the environment        *)
(* (Read, Discard).  SpecAnyOrder takes the same statements in every       *)
(* order, to show that none depends on another.                            *)
(***************************************************************************)
EXTENDS Naturals, Sequences, FiniteSets, TLC

VARIABLES
    pc,        \* program order: line of the statement to execute next (EOF:
               \* none left); arbitrary order: line of the statement last taken
    executed,  \* source lines of the statements executed so far
    ns,        \* the module namespace: name -> value
    phase,     \* "loading", "loaded", "failed" or "discarded"
    reads,     \* names the documentation tool has read so far
    seen       \* the value the tool obtained for each name it read

vars == <<pc, executed, ns, phase, reads, seen>>

----------------------------------------------------------------------------
(* Python values: every value carries its type.                            *)

Str(s) == [type |-> "str", val |-> s]

List(xs) == [type |-> "list", items |-> xs]

NameError == [type |-> "NameError"]

(* Python expressions: a string literal, a list display, a name.           *)

StrLit(s) == [op |-> "str", s |-> s]

ListDisplay(es) == [op |-> "list", elts |-> es]

Name(n) == [op |-> "name", id |-> n]

(* The value of an element expression (no nested displays in conf.py).     *)
EvalAtom(e, env) ==
    IF e.op = "str" THEN Str(e.s)
    ELSE IF e.op = "name" /\ e.id \in DOMAIN env THEN env[e.id]
    ELSE NameError

(* The value of a right-hand side in namespace env; an unbound name        *)
(* anywhere in it raises NameError.                                        *)
Eval(e, env) ==
    IF e.op = "list"
    THEN IF \E i \in 1..Len(e.elts) : EvalAtom(e.elts[i], env) = NameError
         THEN NameError
         ELSE List([i \in 1..Len(e.elts) |-> EvalAtom(e.elts[i], env)])
    ELSE EvalAtom(e, env)

----------------------------------------------------------------------------
(* conf.py, statement by source line.                                      *)

(* An assignment statement: target = expr.                                 *)
Assign(target, expr) == [target |-> target, expr |-> expr]

project == Assign("project", StrLit("PlexMediaServer Config Libraries"))

author_Unaccented == Assign("author", StrLit("Jean-Marc Le Peuvedic"))

author == Assign("author", StrLit("Jean-Marc Le Peuvédic"))

extensions_Autodoc ==
    Assign("extensions", ListDisplay(<<StrLit("sphinx.ext.autodoc")>>))

extensions == Assign("extensions", ListDisplay(<< >>))

templates_path_BareString == Assign("templates_path", StrLit("_templates"))

templates_path ==
    Assign("templates_path", ListDisplay(<<StrLit("_templates")>>))

exclude_patterns_Reordered ==
    Assign("exclude_patterns",
           ListDisplay(<<StrLit("Thumbs.db"), StrLit("_build"),
                         StrLit(".DS_Store")>>))

exclude_patterns_WithStatic ==
    Assign("exclude_patterns",
           ListDisplay(<<StrLit("_build"), StrLit("_static"),
                         StrLit(".DS_Store")>>))

exclude_patterns ==
    Assign("exclude_patterns",
           ListDisplay(<<StrLit("_build"), StrLit("Thumbs.db"),
                         StrLit(".DS_Store")>>))

root_doc_Contents == Assign("root_doc", StrLit("contents"))

root_doc == Assign("root_doc", StrLit("index"))

html_theme == Assign("html_theme", StrLit("alabaster"))

html_static_path_NoUnderscore ==
    Assign("html_static_path", ListDisplay(<<StrLit("static")>>))

html_static_path_RebindsTemplates ==
    Assign("templates_path", ListDisplay(<<StrLit("_static")>>))

html_static_path_Alias == Assign("html_static_path", Name("templates_path"))

html_static_path ==
    Assign("html_static_path", ListDisplay(<<StrLit("_static")>>))

(* The statements of conf.py by source line.                               *)
Program ==
    ( 3 :> project
   @@ 4 :> author
   @@ 6 :> extensions
   @@ 8 :> templates_path
   @@ 9 :> exclude_patterns
   @@ 11 :> root_doc
   @@ 13 :> html_theme
   @@ 14 :> html_static_path )

Lines == DOMAIN Program

LastLine == CHOOSE l \in Lines : \A m \in Lines : m <= l

EOF == LastLine + 1

(* The statement after line l in program order.                            *)
Succ(l) ==
    IF \E m \in Lines : m > l
    THEN CHOOSE m \in Lines : m > l /\ \A k \in Lines : k > l => m <= k
    ELSE EOF

FirstLine == CHOOSE l \in Lines : \A m \in Lines : l <= m

EmptyNs == [n \in {} |-> NameError]

(* name = value: bind (or rebind) the name in the namespace.               *)
Bind(env, n, v) == [m \in DOMAIN env \cup {n} |-> IF m = n THEN v ELSE env[m]]

(* The namespace left by executing the statements from line l on, top to   *)
(* bottom, starting in env; NameError if one of them raises it.            *)
RECURSIVE RunFrom(_, _)
RunFrom(l, env) ==
    IF l \notin Lines THEN env
    ELSE LET v == Eval(Program[l].expr, env) IN
         IF v = NameError THEN NameError
         ELSE RunFrom(Succ(l), Bind(env, Program[l].target, v))

RunInOrder == RunFrom(FirstLine, EmptyNs)

----------------------------------------------------------------------------
Init ==
    /\ pc = FirstLine
    /\ executed = {}
    /\ ns = EmptyNs
    /\ phase = "loading"
    /\ reads = {}
    /\ seen = EmptyNs

(* Execute the assignment statement at line l.  A NameError aborts the     *)
(* load; the load is complete once the last statement has executed.        *)
Step(l) ==
    /\ phase = "loading"
    /\ l \in Lines \ executed
    /\ executed' = executed \cup {l}
    /\ LET v == Eval(Program[l].expr, ns) IN
         IF v = NameError
         THEN /\ ns' = ns
              /\ phase' = "failed"
         ELSE /\ ns' = Bind(ns, Program[l].target, v)
              /\ phase' = IF executed' = Lines THEN "loaded" ELSE "loading"
    /\ UNCHANGED <<reads, seen>>

(* Python executes the module top to bottom.                               *)
ExecInOrder ==
    /\ pc \in Lines
    /\ Step(pc)
    /\ pc' = Succ(pc)

(* The same statements taken in an arbitrary order.                        *)
ExecAnyOrder ==
    \E l \in Lines :
        /\ Step(l)
        /\ pc' = l

(* The documentation tool reads one name of the loaded module.             *)
Read(n) ==
    /\ phase = "loaded"
    /\ n \in DOMAIN ns \ reads
    /\ reads' = reads \cup {n}
    /\ seen' = Bind(seen, n, ns[n])
    /\ UNCHANGED <<pc, executed, ns, phase>>

ReadSome == \E n \in DOMAIN ns : Read(n)

(* The build ends: the record is dropped once it has been read through.    *)
Discard ==
    /\ phase = "loaded"
    /\ reads = DOMAIN ns
    /\ phase' = "discarded"
    /\ ns' = EmptyNs
    /\ UNCHANGED <<pc, executed, reads, seen>>

Next == ExecInOrder \/ ReadSome \/ Discard

Spec == Init /\ [][Next]_vars

NextAnyOrder == ExecAnyOrder \/ ReadSome \/ Discard

SpecAnyOrder == Init /\ [][NextAnyOrder]_vars

----------------------------------------------------------------------------
(* Reading the loaded record.                                              *)

Loaded == phase = "loaded"

(* Name n is bound to value v.                                             *)
Has(n, v) == n \in DOMAIN ns /\ ns[n] = v

StrList(xs) == List([i \in 1..Len(xs) |-> Str(xs[i])])

\* C1: once the configuration is loaded, project is exactly
\* "PlexMediaServer Config Libraries" and author is exactly
\* "Jean-Marc Le Peuvédic", accented character included.
C1_ProjectAuthor ==
    Loaded => /\ Has("project", Str("PlexMediaServer Config Libraries"))
              /\ Has("author", Str("Jean-Marc Le Peuvédic"))

C1_Witness == Loaded /\ reads = {"project", "author"}

\* C2: once the configuration is loaded, exclude_patterns is the sequence
\* "_build", "Thumbs.db", ".DS_Store": these three, in this order, no others.
C2_ExcludePatterns ==
    Loaded => Has("exclude_patterns",
                  StrList(<<"_build", "Thumbs.db", ".DS_Store">>))

C2_Witness == Loaded /\ reads = {"exclude_patterns"}

\* C3: once the configuration is loaded, root_doc is "index" and html_theme
\* is "alabaster".
C3_RootDocTheme ==
    Loaded => /\ Has("root_doc", Str("index"))
              /\ Has("html_theme", Str("alabaster"))

C3_Witness == Loaded /\ reads = {"root_doc", "html_theme"}

\* C4: once the configuration is loaded, templates_path is the one-element
\* sequence "_templates" and html_static_path the one-element sequence
\* "_static".
C4_Paths ==
    Loaded => /\ Has("templates_path", StrList(<<"_templates">>))
              /\ Has("html_static_path", StrList(<<"_static">>))

C4_Witness == Loaded /\ reads = {"templates_path", "html_static_path"}

\* C5: once the configuration is loaded, extensions is the empty sequence.
C5_NoExtensions ==
    Loaded => /\ Has("extensions", List(<< >>))
              /\ Len(ns["extensions"].items) = 0

C5_Witness == Loaded /\ reads = {"extensions"}

\* C6: every field is immutable for the duration of a build: no step of
\* loading or of reading changes the value of a field that has been
\* constructed; each of the eight fields keeps the value it was given.
C6_Immutable ==
    [][phase' # "discarded" =>
          \A n \in DOMAIN ns : n \in DOMAIN ns' /\ ns'[n] = ns[n]]_vars

C6_Witness == Loaded /\ Cardinality(DOMAIN ns) = 8 /\ reads = DOMAIN ns /\ seen = ns

\* C8: no field references another and none is computed: whatever the order
\* in which the statements are executed, no statement fails for want of
\* another field, every field is assigned by exactly one statement, and the
\* record constructed holds the same eight values as in program order.
C8_OrderIndependent ==
    /\ phase # "failed"
    /\ \A n \in DOMAIN ns :
           Cardinality({l \in executed : Program[l].target = n}) = 1
    /\ Loaded => Cardinality(DOMAIN ns) = 8 /\ ns = RunInOrder

C8_Witness == Loaded /\ pc = FirstLine /\ reads = {}

IsStr(v) == v.type = "str"

IsListOfStr(v) == v.type = "list" /\ \A i \in 1..Len(v.items) : IsStr(v.items[i])

StringFields == {"project", "author", "root_doc", "html_theme"}

SequenceFields ==
    {"extensions", "templates_path", "exclude_patterns", "html_static_path"}

\* C9: the loaded record defines exactly the eight fields project, author,
\* extensions, templates_path, exclude_patterns, root_doc, html_theme and
\* html_static_path, each a string or a sequence of strings as the data
\* model says, and no other field.
C9_Schema ==
    Loaded => /\ DOMAIN ns = StringFields \cup SequenceFields
              /\ \A n \in StringFields : IsStr(ns[n])
              /\ \A n \in SequenceFields : IsListOfStr(ns[n])

C9_Witness == Loaded /\ Cardinality(DOMAIN ns) = 8 /\ reads = {}

(* The strings of a field that is a sequence of strings.                   *)
Entries(n) ==
    IF n \in DOMAIN ns /\ IsListOfStr(ns[n])
    THEN {ns[n].items[i].val : i \in 1..Len(ns[n].items)}
    ELSE {}

(* path is the pattern pat itself or lies beneath it.                      *)
Covers(pat, path) ==
    \/ path = pat
    \/ /\ Len(path) > Len(pat)
       /\ SubSeq(path, 1, Len(pat) + 1) = pat \o "/"

\* C10: the root document is not excluded: root_doc is neither equal to nor
\* beneath an entry of exclude_patterns, and no entry of templates_path or
\* of html_static_path is an entry of exclude_patterns.
C10_RootNotExcluded ==
    Loaded => /\ "root_doc" \in DOMAIN ns
              /\ IsStr(ns["root_doc"])
              /\ \A pat \in Entries("exclude_patterns") :
                     ~Covers(pat, ns["root_doc"].val)
              /\ \A dir \in Entries("templates_path") \cup Entries("html_static_path") :
                     dir \notin Entries("exclude_patterns")

C10_Witness ==
    /\ Loaded
    /\ reads = {"exclude_patterns", "root_doc", "templates_path", "html_static_path"}

====
